---- MODULE Spec2Model ----
(***************************************************************************)
(* A model of alphalens/utils.py: compute_forward_returns,                 *)
(* demean_forward_returns and get_clean_factor_and_forward_returns.        *)
(*                                                                         *)
(* Numbers.  The program computes in floating point; the model computes    *)
(* the same expressions over exact rationals <<n, d>> (d > 0, lowest       *)
(* terms), and the missing value NaN is the pair <<0, 0>>.  Prices are     *)
(* positive, so no division by zero (inf) arises.                          *)
(*                                                                         *)
(* Tables.  A price table is a sequence over the dates 1..N of functions   *)
(* asset -> value.  A Series is a sequence of rows [k |-> key, v |-> value] *)
(* in index order, with its name and index level names.  The forward       *)
(* returns frame is [index |-> set of (date, asset), cols |-> day -> (key  *)
(* -> value)].                                                             *)
(***************************************************************************)
EXTENDS Integers, Sequences, FiniteSets, TLC

VARIABLES
    pc,               \* position in the running function
    prices,           \* argument prices
    prices_in,        \* the price table as it was when the call began
    days,             \* argument days (a sequence of holding periods)
    filter_zscore,    \* argument filter_zscore: [given, z]
    day_i,            \* compute_forward_returns: position of the loop over days
    forward_returns,  \* the forward returns frame
    factor,           \* the caller's factor Series object
    factor_in,        \* the factor Series as it was when the call began
    sectors,          \* the caller's sectors object (none, dict or Series)
    sectors_in,       \* the sectors object as it was when the call began
    sector_names,     \* argument sector_names: [given, map]
    sectors_l,        \* the local variable `sectors`: [ref, obj]
    merged_data,      \* the local merged frame (a sequence of rows)
    merges,           \* the merge steps executed so far
    error,            \* the exception the call ended with, if any
    result,           \* the returned pair, if any
    dm_in,            \* demean_forward_returns: argument forward_returns
    by_sector,        \* demean_forward_returns: argument by_sector
    dm_out            \* demean_forward_returns: the returned frame

vars == <<pc, prices, prices_in, days, filter_zscore, day_i, forward_returns, factor,
          factor_in, sectors, sectors_in, sector_names, sectors_l,
          merged_data, merges, error, result, dm_in, by_sector, dm_out>>

----------------------------------------------------------------------------
(* Bounds of the model. *)

NDates == 4        \* dates of the price table of compute_forward_returns

MaxLen == 2        \* rows of a factor Series and of a sectors Series
MaxRet == 2        \* returns given to demean_forward_returns: 1..MaxRet

Assets == {"A", "B"}

\* The prices of compute_forward_returns' tables.
PriceValues == {1, 2}

----------------------------------------------------------------------------
(* Exact rational arithmetic with NaN. *)

NaN == <<0, 0>>

IsNull(x) == x[2] = 0

Abs(n) == IF n < 0 THEN -n ELSE n

RECURSIVE GCD(_, _)
GCD(a, b) == IF b = 0 THEN a ELSE GCD(b, a % b)

R(n, d) ==
    IF d = 0 THEN NaN
    ELSE LET s == IF d < 0 THEN -1 ELSE 1
             g == GCD(Abs(n), Abs(d))
         IN  <<(s * n) \div g, (s * d) \div g>>

Num(n) == <<n, 1>>

RAdd(x, y) ==
    IF IsNull(x) \/ IsNull(y) THEN NaN
    ELSE R(x[1] * y[2] + y[1] * x[2], x[2] * y[2])

RSub(x, y) ==
    IF IsNull(x) \/ IsNull(y) THEN NaN
    ELSE R(x[1] * y[2] - y[1] * x[2], x[2] * y[2])

RMul(x, y) ==
    IF IsNull(x) \/ IsNull(y) THEN NaN
    ELSE R(x[1] * y[1], x[2] * y[2])

RDiv(x, y) ==
    IF IsNull(x) \/ IsNull(y) THEN NaN
    ELSE R(x[1] * y[2], x[2] * y[1])

\* x > y as numpy compares: False when either side is NaN.
RGreater(x, y) ==
    /\ ~IsNull(x)
    /\ ~IsNull(y)
    /\ x[1] * y[2] > y[1] * x[2]

----------------------------------------------------------------------------
(* compute_forward_returns *)

NumDates(p) == Len(p)

Columns(p) == DOMAIN p[1]

\* pd.MultiIndex.from_product([prices.index, prices.columns])
ProductIndex(p) == (1..NumDates(p)) \X Columns(p)

\* fillna(method='pad'): the last value present at or before date t.
RECURSIVE Pad(_, _, _)
Pad(p, t, a) ==
    IF t < 1 THEN NaN
    ELSE IF ~IsNull(p[t][a]) THEN p[t][a]
    ELSE Pad(p, t - 1, a)

\* prices.pct_change(day): data / data.shift(day) - 1 over the padded data,
\* NaN where the price itself is missing.
PctChange(p, day) ==
    [t \in 1..NumDates(p) |->
        [a \in Columns(p) |->
            IF IsNull(p[t][a]) \/ t - day < 1 THEN NaN
            ELSE RSub(RDiv(Pad(p, t, a), Pad(p, t - day, a)), Num(1))]]

\* A shift the wrong way: row t takes the value of row t - day.
ShiftForward(f, day) ==
    [t \in 1..Len(f) |->
        [a \in DOMAIN f[t] |->
            IF t - day < 1 THEN NaN ELSE f[t - day][a]]]

\* frame.shift(-day): row t takes the value of row t + day.
ShiftBack(f, day) ==
    [t \in 1..Len(f) |->
        [a \in DOMAIN f[t] |->
            IF t + day > Len(f) THEN NaN ELSE f[t + day][a]]]

\* Sum of f[t][a] over the dates 1..t where it is present, and their number.
RECURSIVE ColSum(_, _, _)
ColSum(f, a, t) ==
    IF t = 0 THEN Num(0)
    ELSE IF IsNull(f[t][a]) THEN ColSum(f, a, t - 1)
    ELSE RAdd(ColSum(f, a, t - 1), f[t][a])

ColCount(f, a) == Cardinality({t \in 1..Len(f) : ~IsNull(f[t][a])})

\* delta.mean(): per column, skipping NaN; NaN for a column with no value.
ColMean(f, a) == RDiv(ColSum(f, a, Len(f)), Num(ColCount(f, a)))

\* The divisor of a population variance (ddof = 0).
StdDivisorPopulation(n) == n

\* The divisor of delta.std()'s variance: n - 1 (ddof = 1).
StdDivisor(n) == n - 1

\* delta.std() squared: the sample variance per column, skipping NaN; NaN
\* when the column holds fewer than two values.
ColVar(f, a) ==
    LET m  == ColMean(f, a)
        sq == [t \in 1..Len(f) |->
                 [b \in {a} |-> RMul(RSub(f[t][b], m), RSub(f[t][b], m))]]
        n  == ColCount(f, a)
    IN  IF n < 2 THEN NaN ELSE RDiv(ColSum(sq, a, Len(f)), Num(StdDivisor(n)))

\* abs(delta - delta.mean()) > filter_zscore * delta.std(), with both sides
\* squared (both are >= 0): False wherever a side is NaN.
Mask(f, z) ==
    LET mean == [a \in DOMAIN f[1] |-> ColMean(f, a)]
        var  == [a \in DOMAIN f[1] |-> ColVar(f, a)]
    IN  [t \in 1..Len(f) |->
            [a \in DOMAIN f[t] |->
                LET dev == RSub(f[t][a], mean[a])
                IN  RGreater(RMul(dev, dev), RMul(Num(z * z), var[a]))]]

\* delta[mask] = np.nan
Filtered(f, fz) ==
    IF ~fz.given THEN f
    ELSE LET mask == Mask(f, fz.z)
         IN  [t \in 1..Len(f) |->
                [a \in DOMAIN f[t] |-> IF mask[t][a] THEN NaN ELSE f[t][a]]]

\* prices.pct_change(day).shift(-day)
Delta(p, day) == ShiftBack(PctChange(p, day), day)

\* delta.stack() without the division by day.
StackedUndivided(f, day) ==
    LET keys == {k \in (1..Len(f)) \X DOMAIN f[1] : ~IsNull(f[k[1]][k[2]])}
    IN  [k \in keys |-> f[k[1]][k[2]]]

\* delta.stack() / day: the Series of the present values, keyed (date, asset).
Stacked(f, day) ==
    LET keys == {k \in (1..Len(f)) \X DOMAIN f[1] : ~IsNull(f[k[1]][k[2]])}
    IN  [k \in keys |-> RDiv(f[k[1]][k[2]], Num(day))]

\* forward_returns[day] = series: the series aligned to the frame's index.
Aligned(index, series) ==
    [k \in index |-> IF k \in DOMAIN series THEN series[k] ELSE NaN]

\* One round of the loop: the column of one holding period.
ForwardColumn(p, day, fz) ==
    Aligned(ProductIndex(p), Stacked(Filtered(Delta(p, day), fz), day))

SetColumn(fr, day, col) ==
    [fr EXCEPT !.cols =
        [d \in DOMAIN fr.cols \cup {day} |->
            IF d = day THEN col ELSE fr.cols[d]]]

\* pd.DataFrame(index=MultiIndex.from_product(...)): no column yet.
EmptyFrame(p) == [index |-> ProductIndex(p), cols |-> << >>]

\* The whole loop over days[i..], as the call from
\* get_clean_factor_and_forward_returns runs it.
RECURSIVE ForwardLoop(_, _, _, _, _)
ForwardLoop(fr, p, ds, fz, i) ==
    IF i > Len(ds) THEN fr
    ELSE ForwardLoop(SetColumn(fr, ds[i], ForwardColumn(p, ds[i], fz)),
                     p, ds, fz, i + 1)

ComputeForwardReturns(p, ds, fz) == ForwardLoop(EmptyFrame(p), p, ds, fz, 1)

----------------------------------------------------------------------------
(* Values that stand for "nothing here". *)

NoFrame == [index |-> {}, cols |-> << >>]
NoSeries == [name |-> "", names |-> << >>, rows |-> << >>]
NoSectors == [kind |-> "none", map |-> << >>, name |-> "", names |-> << >>,
              rows |-> << >>]
NoNames == [given |-> FALSE, map |-> << >>]
NoFilter == [given |-> FALSE, z |-> 0]
NoLocal == [ref |-> "unset", obj |-> NoSeries]
NoError == [type |-> "", what |-> "", items |-> {}]
NoResult == [returned |-> FALSE, factor |-> << >>, forward_returns |-> << >>]
NoPrices == << >>

----------------------------------------------------------------------------
(* compute_forward_returns, called on its own: one step per round of its   *)
(* loop.                                                                   *)

\* Lines 47-48.
FwdBegin ==
    /\ pc = "fwd_start"
    /\ forward_returns' = EmptyFrame(prices)
    /\ day_i' = 1
    /\ pc' = "fwd_loop"
    /\ UNCHANGED <<prices, days, filter_zscore, factor, factor_in, prices_in, sectors,
                   sectors_in, sector_names, sectors_l, merged_data, merges,
                   error, result, dm_in, by_sector, dm_out>>

\* Lines 50-57, one day.
FwdDay ==
    /\ pc = "fwd_loop"
    /\ day_i <= Len(days)
    /\ forward_returns' =
           SetColumn(forward_returns, days[day_i],
                     ForwardColumn(prices, days[day_i], filter_zscore))
    /\ day_i' = day_i + 1
    /\ UNCHANGED <<pc, prices, days, filter_zscore, factor, factor_in, prices_in,
                   sectors, sectors_in, sector_names, sectors_l, merged_data,
                   merges, error, result, dm_in, by_sector, dm_out>>

\* Lines 59-61: the index already carries the names; return the frame.
FwdReturn ==
    /\ pc = "fwd_loop"
    /\ day_i > Len(days)
    /\ pc' = "fwd_done"
    /\ UNCHANGED <<prices, days, filter_zscore, day_i, forward_returns,
                   factor, factor_in, prices_in, sectors, sectors_in, sector_names,
                   sectors_l, merged_data, merges, error, result, dm_in,
                   by_sector, dm_out>>

\* Full price tables over 1..NDates, and the same with one price of asset
\* "A" missing (the assets are treated alike, so one stands for both).
FullTables == [1..NDates -> [Assets -> {Num(v) : v \in PriceValues}]]

WithHole(p, t) == [p EXCEPT ![t]["A"] = NaN]

PriceTables ==
    FullTables \cup {WithHole(p, t) : p \in FullTables, t \in 1..NDates}

\* The holding periods tried: one day, two periods out of order, and a
\* period as long as the table.
DaysChoices == {<<1>>, <<2, 1>>, <<NDates>>}

FilterChoices ==
    {NoFilter} \cup {[given |-> TRUE, z |-> z] : z \in {0, 1}}

InitFwd ==
    /\ pc = "fwd_start"
    /\ prices \in PriceTables
    /\ prices_in = prices
    /\ days \in DaysChoices
    /\ filter_zscore \in FilterChoices
    /\ day_i = 0
    /\ forward_returns = NoFrame
    /\ factor = NoSeries
    /\ factor_in = NoSeries
    /\ sectors = NoSectors
    /\ sectors_in = NoSectors
    /\ sector_names = NoNames
    /\ sectors_l = NoLocal
    /\ merged_data = << >>
    /\ merges = {}
    /\ error = NoError
    /\ result = NoResult
    /\ dm_in = << >>
    /\ by_sector = FALSE
    /\ dm_out = << >>

NextFwd == FwdBegin \/ FwdDay \/ FwdReturn

SpecFwd == InitFwd /\ [][NextFwd]_vars

----------------------------------------------------------------------------
(* Properties of compute_forward_returns (under SpecFwd). *)

NoMissing(p) ==
    \A t \in 1..NumDates(p) : \A a \in Columns(p) : ~IsNull(p[t][a])

\* The price at (t, a) as an integer (prices are whole numbers here).
PriceAt(t, a) == prices[t][a][1]

\* ((price[t+d,a] - price[t,a]) / price[t,a]) / d
ExpectedReturn(t, a, d) ==
    R(PriceAt(t + d, a) - PriceAt(t, a), PriceAt(t, a) * d)

\* C1: on a price table without missing values and with no z-score filter,
\* the value of column d at row (t, a), for t + d inside the table, is
\* ((price[t+d,a] - price[t,a]) / price[t,a]) / d.
C1_ForwardReturnValue ==
    (NoMissing(prices) /\ ~filter_zscore.given) =>
        \A d \in DOMAIN forward_returns.cols :
            \A a \in Columns(prices) :
                \A t \in 1..NumDates(prices) :
                    t + d <= NumDates(prices) =>
                        forward_returns.cols[d][<<t, a>>] = ExpectedReturn(t, a, d)

\* A returned frame with the columns 2 and 1 holding the returns 1/2 (a price
\* doubling over two days) and -1/2 (a price halving over one day).
C1_Witness ==
    /\ pc = "fwd_done"
    /\ NoMissing(prices)
    /\ ~filter_zscore.given
    /\ days = <<2, 1>>
    /\ \E t \in 1..NDates : forward_returns.cols[2][<<t, "A">>] = <<1, 2>>
    /\ \E t \in 1..NDates : forward_returns.cols[1][<<t, "B">>] = <<-1, 2>>

\* C2: the frame has one row for every (date, asset) of the price table, and
\* every column d is null at the last d dates (everywhere when d is at least
\* the number of dates).
C2_LastDatesNull ==
    pc \in {"fwd_loop", "fwd_done"} =>
        /\ forward_returns.index = (1..NumDates(prices)) \X Columns(prices)
        /\ \A d \in DOMAIN forward_returns.cols :
              /\ DOMAIN forward_returns.cols[d] = forward_returns.index
              /\ \A a \in Columns(prices) :
                    \A t \in 1..NumDates(prices) :
                        t > NumDates(prices) - d =>
                            IsNull(forward_returns.cols[d][<<t, a>>])

\* A returned frame whose column 2 is null at the last two dates and holds
\* values at the dates before them.
C2_Witness ==
    /\ pc = "fwd_done"
    /\ days = <<2, 1>>
    /\ \A a \in Assets :
          /\ IsNull(forward_returns.cols[2][<<NDates, a>>])
          /\ IsNull(forward_returns.cols[2][<<NDates - 1, a>>])
          /\ ~IsNull(forward_returns.cols[2][<<NDates - 2, a>>])
          /\ ~IsNull(forward_returns.cols[1][<<NDates - 1, a>>])

\* The d-period percent changes before any filter: the unfiltered column
\* times d.
Changes(d) ==
    LET base == ForwardColumn(prices, d, NoFilter)
    IN  [k \in DOMAIN base |-> RMul(base[k], Num(d))]

RECURSIVE SumOver(_, _, _, _)
SumOver(ch, T, a, square) ==
    IF T = {} THEN Num(0)
    ELSE LET t == CHOOSE x \in T : TRUE
             c == ch[<<t, a>>]
         IN  RAdd(IF square THEN RMul(c, c) ELSE c,
                  SumOver(ch, T \ {t}, a, square))

\* The dates t where |change - m| > z * s for the mean m and the sample
\* standard deviation s of asset a's changes ch, with
\* s^2 = (n * sum x^2 - (sum x)^2) / (n * (n - 1)); no value exceeds
\* anything when fewer than two changes exist (s is NaN).
Exceeding(ch, a, z) ==
    LET T   == {t \in 1..NumDates(prices) : ~IsNull(ch[<<t, a>>])}
        n   == Cardinality(T)
        sum == SumOver(ch, T, a, FALSE)
        sq  == SumOver(ch, T, a, TRUE)
        m   == RDiv(sum, Num(n))
        var == RDiv(RSub(RMul(Num(n), sq), RMul(sum, sum)), Num(n * (n - 1)))
    IN  IF n < 2 THEN {}
        ELSE {t \in T :
                LET dev == RSub(ch[<<t, a>>], m)
                IN  RGreater(RMul(dev, dev), RMul(Num(z * z), var))}

\* C9: with a z-score threshold z, a value of column d is null exactly when
\* the unfiltered value is null or its change lies more than z sample
\* standard deviations from the mean of the asset's changes, and a value
\* that is not null equals the unfiltered value.
C9_FilterOnlyNulls ==
    filter_zscore.given =>
        \A d \in DOMAIN forward_returns.cols :
            LET base == ForwardColumn(prices, d, NoFilter)
                ch   == Changes(d)
            IN  \A a \in Columns(prices) :
                    LET ex == Exceeding(ch, a, filter_zscore.z)
                    IN  \A t \in 1..NumDates(prices) :
                            LET out == forward_returns.cols[d][<<t, a>>]
                            IN  /\ IsNull(out) <=>
                                      (IsNull(base[<<t, a>>]) \/ t \in ex)
                                /\ ~IsNull(out) => out = base[<<t, a>>]

\* A returned frame, filtered at one standard deviation, in which one change
\* of an asset was nulled and another change of the same asset was kept.
C9_Witness ==
    /\ pc = "fwd_done"
    /\ filter_zscore.given
    /\ filter_zscore.z = 1
    /\ \E d \in DOMAIN forward_returns.cols :
          \E a \in Assets :
              \E t1, t2 \in 1..NDates :
                  /\ ~IsNull(Changes(d)[<<t1, a>>])
                  /\ IsNull(forward_returns.cols[d][<<t1, a>>])
                  /\ ~IsNull(forward_returns.cols[d][<<t2, a>>])

----------------------------------------------------------------------------
(* get_clean_factor_and_forward_returns *)

IndexNames == <<"date", "asset">>

\* factor.name = 'factor'; factor.index = factor.index.set_names([...]):
\* both assign to the object the caller passed.
RenamedFactor(f) == [f EXCEPT !.name = "factor", !.names = IndexNames]

DaySet(ds) == {ds[i] : i \in 1..Len(ds)}

\* The forward-return cells of the frame's row k; NaN in every column when
\* the frame has no such row.
ReturnsAt(fr, k) ==
    [d \in DOMAIN fr.cols |-> IF k \in fr.index THEN fr.cols[d][k] ELSE NaN]

\* pd.merge(pd.DataFrame(factor), forward_returns, how='left', on the
\* indexes): one row per factor row, in the factor's order.
MergeFactor(f, fr) ==
    [i \in 1..Len(f.rows) |->
        [k      |-> f.rows[i].k,
         sector |-> "",
         factor |-> f.rows[i].v,
         fr     |-> ReturnsAt(fr, f.rows[i].k)]]

\* factor.index.get_level_values('asset')
AssetLevel(f) == [i \in 1..Len(f.rows) |-> f.rows[i].k[2]]

Range(seq) == {seq[i] : i \in 1..Len(seq)}

\* The difference taken the wrong way round.
MissingAssetsReversed(f, dict) == DOMAIN dict \ Range(AssetLevel(f))

\* set(factor.index.get_level_values('asset')) - set(sectors.keys())
MissingAssets(f, dict) == Range(AssetLevel(f)) \ DOMAIN dict

\* pd.Series(index=factor.index, data=ss[assets].values); an asset the dict
\* lacked would read as missing, which the check before it excludes.
Broadcast(f, dict) ==
    [name  |-> "",
     names |-> f.names,
     rows  |-> [i \in 1..Len(f.rows) |->
                  [k |-> f.rows[i].k,
                   v |-> IF f.rows[i].k[2] \in DOMAIN dict
                         THEN dict[f.rows[i].k[2]]
                         ELSE "nan"]]]

\* sectors.values
Values(ser) == [i \in 1..Len(ser.rows) |-> ser.rows[i].v]

\* set(sectors.values) - set(sector_names.keys())
MissingSectors(ser, names) == Range(Values(ser)) \ DOMAIN names

\* pd.Series(index=factor.index, data=sn[sectors.values].values): the names
\* of the sectors' values, in the sectors' order, laid on the factor's index.
Renamed(f, ser, names) ==
    [name  |-> "",
     names |-> f.names,
     rows  |-> [i \in 1..Len(f.rows) |->
                  [k |-> f.rows[i].k, v |-> names[ser.rows[i].v]]]]

\* A join on the asset level alone.
MatchesOnAsset(rows, k) == SelectSeq(rows, LAMBDA r : r.k[2] = k[2])

\* The rows of the merged frame that a sector row with key k joins.
Matches(rows, k) == SelectSeq(rows, LAMBDA r : r.k = k)

\* pd.merge(pd.DataFrame(sectors), merged_data, how='left', on the indexes):
\* the sector rows are the left side; a sector row with no match keeps NaN
\* in every column of the right side.
RECURSIVE MergeSectors(_, _, _, _)
MergeSectors(srows, mrows, cols, i) ==
    IF i > Len(srows) THEN << >>
    ELSE LET m    == Matches(mrows, srows[i].k)
             here == IF m = << >>
                     THEN << [k      |-> srows[i].k,
                              sector |-> srows[i].v,
                              factor |-> NaN,
                              fr     |-> [d \in cols |-> NaN]] >>
                     ELSE [j \in 1..Len(m) |->
                              [m[j] EXCEPT !.sector = srows[i].v]]
         IN  here \o MergeSectors(srows, mrows, cols, i + 1)

\* A dropna() that looks at the return columns only.
CompleteReturns(r) == \A d \in DOMAIN r.fr : ~IsNull(r.fr[d])

\* A row dropna() keeps: no NaN in the factor column or a return column.
Complete(r) ==
    /\ ~IsNull(r.factor)
    /\ \A d \in DOMAIN r.fr : ~IsNull(r.fr[d])

\* merged_data.dropna()
DropNa(rows) == SelectSeq(rows, Complete)

\* The index key of a merged row: (date, asset), and the sector once
\* set_index('sector', append=True) has run.
RowKey(r, withSector) ==
    IF withSector THEN <<r.k[1], r.k[2], r.sector>> ELSE r.k

\* factor = merged_data.pop("factor"); forward_returns = merged_data
Split(rows, withSector) ==
    [returned        |-> TRUE,
     factor          |-> [i \in 1..Len(rows) |->
                            [k |-> RowKey(rows[i], withSector),
                             v |-> rows[i].factor]],
     forward_returns |-> [i \in 1..Len(rows) |->
                            [k  |-> RowKey(rows[i], withSector),
                             fr |-> rows[i].fr]]]

\* The object the local variable `sectors` refers to.
Local == IF sectors_l.ref = "arg" THEN sectors ELSE sectors_l.obj

AssetsError(diff) == [type |-> "KeyError", what |-> "assets", items |-> diff]
SectorsError(diff) == [type |-> "KeyError", what |-> "sectors", items |-> diff]
LengthError == [type |-> "ValueError", what |-> "length", items |-> {}]

\* Lines 181-182.
Rename ==
    /\ pc = "start"
    /\ factor' = RenamedFactor(factor)
    /\ pc' = "compute"
    /\ UNCHANGED <<prices, days, filter_zscore, day_i, forward_returns,
                   factor_in, prices_in, sectors, sectors_in, sector_names, sectors_l,
                   merged_data, merges, error, result, dm_in, by_sector,
                   dm_out>>

\* Lines 184-185.
Compute ==
    /\ pc = "compute"
    /\ forward_returns' = ComputeForwardReturns(prices, days, filter_zscore)
    /\ pc' = "merge"
    /\ UNCHANGED <<prices, days, filter_zscore, day_i, factor, factor_in, prices_in,
                   sectors, sectors_in, sector_names, sectors_l, merged_data,
                   merges, error, result, dm_in, by_sector, dm_out>>

\* Lines 187-191.
Merge ==
    /\ pc = "merge"
    /\ merged_data' = MergeFactor(factor, forward_returns)
    /\ merges' = merges \cup {"factor_returns"}
    /\ pc' = IF sectors.kind = "none" THEN "dropna" ELSE "sectors"
    /\ UNCHANGED <<prices, days, filter_zscore, day_i, forward_returns,
                   factor, factor_in, prices_in, sectors, sectors_in, sector_names,
                   sectors_l, error, result, dm_in, by_sector, dm_out>>

\* Lines 194-204, sectors a dict: raise on an asset the dict lacks, else
\* rebind the local to a new Series over the factor's index.
SectorsDict ==
    /\ pc = "sectors"
    /\ sectors.kind = "dict"
    /\ LET diff == MissingAssets(factor, sectors.map)
       IN  IF diff # {}
           THEN /\ error' = AssetsError(diff)
                /\ pc' = "raised"
                /\ UNCHANGED sectors_l
           ELSE /\ sectors_l' = [ref |-> "local",
                                  obj |-> Broadcast(factor, sectors.map)]
                /\ pc' = "names"
                /\ UNCHANGED error
    /\ UNCHANGED <<prices, days, filter_zscore, day_i, forward_returns,
                   factor, factor_in, prices_in, sectors, sectors_in, sector_names,
                   merged_data, merges, result, dm_in, by_sector, dm_out>>

\* Line 194, sectors a Series: the local keeps referring to the caller's.
SectorsSeries ==
    /\ pc = "sectors"
    /\ sectors.kind = "series"
    /\ sectors_l' = [ref |-> "arg", obj |-> NoSeries]
    /\ pc' = "names"
    /\ UNCHANGED <<prices, days, filter_zscore, day_i, forward_returns,
                   factor, factor_in, prices_in, sectors, sectors_in, sector_names,
                   merged_data, merges, error, result, dm_in, by_sector,
                   dm_out>>

\* Lines 206-215: raise on a sector code sector_names lacks, else rebind the
\* local to a new Series of display names over the factor's index (which
\* pandas refuses when the lengths differ).
SectorNames ==
    /\ pc = "names"
    /\ IF ~sector_names.given
       THEN /\ pc' = "merge_sectors"
            /\ UNCHANGED <<sectors_l, error>>
       ELSE LET diff == MissingSectors(Local, sector_names.map)
            IN  IF diff # {}
                THEN /\ error' = SectorsError(diff)
                     /\ pc' = "raised"
                     /\ UNCHANGED sectors_l
                ELSE IF Len(Local.rows) # Len(factor.rows)
                THEN /\ error' = LengthError
                     /\ pc' = "raised"
                     /\ UNCHANGED sectors_l
                ELSE /\ sectors_l' =
                            [ref |-> "local",
                             obj |-> Renamed(factor, Local, sector_names.map)]
                     /\ pc' = "merge_sectors"
                     /\ UNCHANGED error
    /\ UNCHANGED <<prices, days, filter_zscore, day_i, forward_returns,
                   factor, factor_in, prices_in, sectors, sectors_in, sector_names,
                   merged_data, merges, result, dm_in, by_sector, dm_out>>

\* sectors.name = 'sector'; sectors.index = ...set_names([...]): assigned to
\* whichever object the local refers to.
RenamedSectors(ser) == [ser EXCEPT !.name = "sector", !.names = IndexNames]

\* Lines 217-226.
MergeSectorLabels ==
    /\ pc = "merge_sectors"
    /\ IF sectors_l.ref = "arg"
       THEN /\ sectors' = RenamedSectors(sectors)
            /\ UNCHANGED sectors_l
       ELSE /\ sectors_l' = [sectors_l EXCEPT !.obj = RenamedSectors(@)]
            /\ UNCHANGED sectors
    /\ merged_data' = MergeSectors(Local.rows, merged_data, DaySet(days), 1)
    /\ merges' = merges \cup {"sectors"}
    /\ pc' = "dropna"
    /\ UNCHANGED <<prices, days, filter_zscore, day_i, forward_returns,
                   factor, factor_in, prices_in, sectors_in, sector_names, error, result,
                   dm_in, by_sector, dm_out>>

\* Lines 228-233.
Return ==
    /\ pc = "dropna"
    /\ result' = Split(DropNa(merged_data), sectors.kind # "none")
    /\ pc' = "done"
    /\ UNCHANGED <<prices, days, filter_zscore, day_i, forward_returns,
                   factor, factor_in, prices_in, sectors, sectors_in, sector_names,
                   sectors_l, merged_data, merges, error, dm_in, by_sector,
                   dm_out>>

----------------------------------------------------------------------------
(* The inputs of get_clean_factor_and_forward_returns. *)

\* The default of filter_zscore.
DefaultZ == 20

\* Price tables of two dates, with both assets or with asset "A" alone: the
\* only holding period that has data is 1, it has none at the second date,
\* and none for an asset the table lacks.
CleanPrices ==
    { << [a \in S |-> IF a = "A" THEN Num(1) ELSE Num(2)],
         [a \in S |-> IF a = "A" THEN Num(2) ELSE Num(1)] >> :
        S \in {Assets, {"A"}} }

\* The (date, asset) keys of factor and sectors, in ascending order.
AllKeys == << <<1, "A">>, <<1, "B">>, <<2, "A">>, <<2, "B">> >>

KeySet == Range(AllKeys)

\* A factor Series is unique per key; its rows are taken in ascending key
\* order, at most MaxLen of them, and the value at the j-th key is j or
\* missing.
Absent == <<-1, 1>>

FactorRows ==
    {SelectSeq([j \in 1..Len(AllKeys) |->
                   [k |-> AllKeys[j],
                    v |-> IF pick[j] = "value" THEN Num(j)
                          ELSE IF pick[j] = "missing" THEN NaN
                          ELSE Absent]],
               LAMBDA r : r.v # Absent) :
        pick \in {q \in [1..Len(AllKeys) -> {"absent", "missing", "value"}] :
                    Cardinality({j \in 1..Len(AllKeys) : q[j] # "absent"})
                        <= MaxLen}}

\* What the caller's Series may be called before the call.
FactorMetas ==
    {[name |-> "factor", names |-> IndexNames],
     [name |-> "alpha", names |-> <<"", "">>]}

SectorCodes == {"s1", "s2"}

\* The display names of the sector codes.
DisplayName == [c \in SectorCodes |-> IF c = "s1" THEN "Tech" ELSE "Energy"]

\* A dict of asset -> sector code over any set of assets.
SectorDicts == UNION {[S -> SectorCodes] : S \in SUBSET Assets}

\* A time-varying sectors Series: at most MaxLen rows with distinct keys in
\* any order, over any of the keys.
SectorRows ==
    UNION {{[i \in 1..n |-> [k |-> ks[i], v |-> cs[i]]] :
              ks \in {q \in [1..n -> KeySet] :
                        \A i, j \in 1..n : i # j => q[i] # q[j]},
              cs \in [1..n -> SectorCodes]} : n \in 0..MaxLen}

SectorsChoices ==
    {NoSectors}
    \cup {[NoSectors EXCEPT !.kind = "dict", !.map = m] : m \in SectorDicts}
    \cup {[NoSectors EXCEPT !.kind = "series", !.name = "code",
                            !.names = <<"", "">>, !.rows = rs] :
             rs \in SectorRows}

\* sector_names: absent, or a dict over any non-empty set of the codes.
NamesChoices ==
    {NoNames}
    \cup {[given |-> TRUE, map |-> [c \in S |-> DisplayName[c]]] :
             S \in (SUBSET SectorCodes) \ {{}, {"s2"}}}

Init ==
    /\ pc = "start"
    /\ prices \in CleanPrices
    /\ prices_in = prices
    /\ days = <<1>>
    /\ filter_zscore = [given |-> TRUE, z |-> DefaultZ]
    /\ day_i = 0
    /\ forward_returns = NoFrame
    /\ \E m \in FactorMetas, rs \in FactorRows :
          factor = [name |-> m.name, names |-> m.names, rows |-> rs]
    /\ factor_in = factor
    /\ sectors \in SectorsChoices
    /\ sectors_in = sectors
    /\ sector_names \in NamesChoices
    /\ sectors_l = NoLocal
    /\ merged_data = << >>
    /\ merges = {}
    /\ error = NoError
    /\ result = NoResult
    /\ dm_in = << >>
    /\ by_sector = FALSE
    /\ dm_out = << >>

Next ==
    \/ Rename
    \/ Compute
    \/ Merge
    \/ SectorsDict
    \/ SectorsSeries
    \/ SectorNames
    \/ MergeSectorLabels
    \/ Return

Spec == Init /\ [][Next]_vars

----------------------------------------------------------------------------
(* Properties of get_clean_factor_and_forward_returns (under Spec). *)

\* The assets of the factor the call was given.
InputAssets == {factor_in.rows[i].k[2] : i \in 1..Len(factor_in.rows)}

InputKeys == {factor_in.rows[i].k : i \in 1..Len(factor_in.rows)}

\* The (date, asset) part of a returned row's key.
DateAsset(k) == <<k[1], k[2]>>

\* C4: with sectors a dict that lacks an asset of the factor, the call does
\* not get past the check of the dict and ends with a KeyError listing
\* exactly the factor's assets the dict lacks, returning nothing; with a
\* dict that has every asset of the factor, that error is never raised.
C4_MissingAssetsRaise ==
    sectors_in.kind = "dict" =>
        LET lacking == InputAssets \ DOMAIN sectors_in.map
        IN  /\ lacking # {} =>
                  \/ pc \in {"start", "compute", "merge", "sectors"}
                  \/ /\ pc = "raised"
                     /\ error = [type |-> "KeyError", what |-> "assets",
                                 items |-> lacking]
                     /\ ~result.returned
            /\ lacking = {} => error.what # "assets"

\* A call that ended with the KeyError naming "B", the one asset of the
\* factor absent from a dict that has "A".
C4_Witness ==
    /\ pc = "raised"
    /\ sectors_in.kind = "dict"
    /\ DOMAIN sectors_in.map = {"A"}
    /\ InputAssets = {"A", "B"}
    /\ error.what = "assets"
    /\ error.items = {"B"}

\* C5: a returned factor and returned forward returns hold no missing value,
\* carry the same index, and the (date, asset) part of every key of that
\* index is a key of the input factor.
C5_CleanOutput ==
    result.returned =>
        /\ Len(result.factor) = Len(result.forward_returns)
        /\ \A i \in 1..Len(result.factor) :
              /\ result.factor[i].k = result.forward_returns[i].k
              /\ ~IsNull(result.factor[i].v)
              /\ DOMAIN result.forward_returns[i].fr = DaySet(days)
              /\ \A d \in DaySet(days) :
                    ~IsNull(result.forward_returns[i].fr[d])
              /\ DateAsset(result.factor[i].k) \in InputKeys

\* A return, with a time-varying sectors Series, of some rows of the factor
\* but not all of them.
C5_Witness ==
    /\ pc = "done"
    /\ result.returned
    /\ sectors_in.kind = "series"
    /\ Len(result.factor) >= 1
    /\ Len(result.factor) < Len(factor_in.rows)

\* C6: every returned factor row carries the value the input factor has at
\* the row's (date, asset), and no (date, asset) is returned twice.
C6_FactorRoundTrip ==
    result.returned =>
        /\ \A i \in 1..Len(result.factor) :
              \E j \in 1..Len(factor_in.rows) :
                  /\ factor_in.rows[j].k = DateAsset(result.factor[i].k)
                  /\ factor_in.rows[j].v = result.factor[i].v
        /\ \A i, j \in 1..Len(result.factor) :
              DateAsset(result.factor[i].k) = DateAsset(result.factor[j].k)
                  => i = j

\* A return of two rows, each with its own factor value, through the merge
\* with a sectors Series listed in descending key order.
C6_Witness ==
    /\ pc = "done"
    /\ sectors_in.kind = "series"
    /\ Len(sectors_in.rows) = 2
    /\ sectors_in.rows[1].k = <<1, "B">>
    /\ sectors_in.rows[2].k = <<1, "A">>
    /\ Len(result.factor) = 2
    /\ result.factor[1].v # result.factor[2].v

\* C7 as stated: a call that ended with one of the two validation errors
\* had run no merge step when it raised.
C7_NoMergeBeforeValidation ==
    (pc = "raised" /\ error.type = "KeyError") => merges = {}

\* C8 as stated: when the call has ended, by a return or by an error, the
\* caller's factor, prices and sectors are as they were before the call.
C8_InputsUntouched ==
    pc \in {"done", "raised"} =>
        /\ factor = factor_in
        /\ sectors = sectors_in
        /\ prices = prices_in

\* The label the sector mapping assigns to (date, asset), as sector_names
\* displays it; "" when the mapping assigns none.
AssignedLabel(k) ==
    LET code ==
            IF sectors_in.kind = "dict"
            THEN IF k[2] \in DOMAIN sectors_in.map
                 THEN sectors_in.map[k[2]] ELSE ""
            ELSE LET hit == {i \in 1..Len(sectors_in.rows) :
                                sectors_in.rows[i].k = k}
                 IN  IF hit = {} THEN ""
                     ELSE sectors_in.rows[CHOOSE i \in hit : TRUE].v
    IN  IF code = "" \/ ~sector_names.given THEN code
        ELSE sector_names.map[code]

\* C10 as stated: every returned row keyed (date, asset, sector) carries
\* the label the sector mapping assigns to that (date, asset), displayed
\* through sector_names when given.
C10_SectorLabelOfKey ==
    (result.returned /\ sectors_in.kind # "none") =>
        \A i \in 1..Len(result.factor) :
            result.factor[i].k[3] = AssignedLabel(DateAsset(result.factor[i].k))

----------------------------------------------------------------------------
(* demean_forward_returns *)

\* A grouper that ignores by_sector.
GroupKeyDateOnly(r, bySector) == <<r.k[1], "">>

\* grouper = ['date', 'sector'] if by_sector else ['date']
GroupKey(r, bySector) ==
    IF bySector THEN <<r.k[1], r.sector>> ELSE <<r.k[1], "">>

\* The rows of one group, as groupby(level=grouper) hands them to apply.
Group(rows, g, bySector) ==
    SelectSeq(rows, LAMBDA r : GroupKey(r, bySector) = g)

\* x.mean() for one column: the mean of the values present, NaN if none.
RECURSIVE SeqSum(_, _, _)
SeqSum(rows, c, i) ==
    IF i = 0 THEN Num(0)
    ELSE IF IsNull(rows[i].ret[c]) THEN SeqSum(rows, c, i - 1)
    ELSE RAdd(SeqSum(rows, c, i - 1), rows[i].ret[c])

SeqMean(rows, c) ==
    RDiv(SeqSum(rows, c, Len(rows)),
         Num(Cardinality({i \in 1..Len(rows) : ~IsNull(rows[i].ret[c])})))

\* groupby(level=grouper).apply(lambda x: x - x.mean()): every row, in the
\* input's order, less the mean of its group, column by column.
Demeaned(rows, bySector) ==
    [i \in 1..Len(rows) |->
        [rows[i] EXCEPT !.ret =
            [c \in DOMAIN rows[i].ret |->
                RSub(rows[i].ret[c],
                     SeqMean(Group(rows, GroupKey(rows[i], bySector), bySector),
                             c))]]]

\* Lines 91-93.
Demean ==
    /\ pc = "dm_start"
    /\ dm_out' = Demeaned(dm_in, by_sector)
    /\ pc' = "dm_done"
    /\ UNCHANGED <<prices, days, filter_zscore, day_i, forward_returns,
                   factor, factor_in, prices_in, sectors, sectors_in, sector_names,
                   sectors_l, merged_data, merges, error, result, dm_in,
                   by_sector>>

\* The frames given to demean_forward_returns: a row for every asset at two
\* dates, keyed (date, asset, sector), with two return columns: column 1
\* takes any values among 1..MaxRet and missing, column 5 holds the row's
\* position, missing at the first row.
DmAssets == {"A", "B", "C"}

DmKeys == << <<1, "A">>, <<1, "B">>, <<1, "C">>,
             <<2, "A">>, <<2, "B">>, <<2, "C">> >>

DmColumns == {1, 5}

DmValues == {NaN} \cup {Num(v) : v \in 1..MaxRet}

DmFrames ==
    {[i \in 1..Len(DmKeys) |->
        [k |-> DmKeys[i], sector |-> sec[DmKeys[i][2]],
         ret |-> [c \in DmColumns |->
                    IF c = 1 THEN val[i]
                    ELSE IF i = 1 THEN NaN ELSE Num(i)]]] :
        sec \in [DmAssets -> SectorCodes],
        val \in [1..Len(DmKeys) -> DmValues]}

InitDemean ==
    /\ pc = "dm_start"
    /\ dm_in \in DmFrames
    /\ by_sector \in BOOLEAN
    /\ dm_out = << >>
    /\ prices = NoPrices
    /\ prices_in = NoPrices
    /\ days = << >>
    /\ filter_zscore = NoFilter
    /\ day_i = 0
    /\ forward_returns = NoFrame
    /\ factor = NoSeries
    /\ factor_in = NoSeries
    /\ sectors = NoSectors
    /\ sectors_in = NoSectors
    /\ sector_names = NoNames
    /\ sectors_l = NoLocal
    /\ merged_data = << >>
    /\ merges = {}
    /\ error = NoError
    /\ result = NoResult

NextDemean == Demean

SpecDemean == InitDemean /\ [][NextDemean]_vars

----------------------------------------------------------------------------
(* Properties of demean_forward_returns (under SpecDemean). *)

\* The positions of the rows in the group of row i: the rows of its date,
\* and of its sector too when by_sector holds.
Peers(i) ==
    {j \in 1..Len(dm_in) :
        /\ dm_in[j].k[1] = dm_in[i].k[1]
        /\ by_sector => dm_in[j].sector = dm_in[i].sector}

RECURSIVE Total(_, _, _)
Total(frame, J, c) ==
    IF J = {} THEN Num(0)
    ELSE LET j == CHOOSE x \in J : TRUE
         IN  RAdd(frame[j].ret[c], Total(frame, J \ {j}, c))

\* The rows of J that hold a value in column c of the frame.
Holding(frame, J, c) == {j \in J : ~IsNull(frame[j].ret[c])}

\* The output keeps the input's rows, and each output value is the input
\* value less the mean of the values present in the row's group.
RowsDemeaned ==
    /\ Len(dm_out) = Len(dm_in)
    /\ \A i \in 1..Len(dm_in) :
          /\ dm_out[i].k = dm_in[i].k
          /\ dm_out[i].sector = dm_in[i].sector
          /\ DOMAIN dm_out[i].ret = DOMAIN dm_in[i].ret
          /\ \A c \in DOMAIN dm_in[i].ret :
                LET H == Holding(dm_in, Peers(i), c)
                IN  dm_out[i].ret[c] =
                        RSub(dm_in[i].ret[c],
                             RDiv(Total(dm_in, H, c), Num(Cardinality(H))))

\* The mean of the output over the group of row i in column c: NaN when
\* the group's output holds no value.
OutputMean(i, c) ==
    LET H == Holding(dm_out, Peers(i), c)
    IN  RDiv(Total(dm_out, H, c), Num(Cardinality(H)))

\* C3 as stated: the output keeps the rows, each value is the input less the
\* mean of the group's non-null inputs, and the mean of the output over
\* each group is 0.
C3_GroupMeanZero ==
    pc = "dm_done" =>
        /\ RowsDemeaned
        /\ \A i \in 1..Len(dm_in) :
              \A c \in DmColumns : OutputMean(i, c) = Num(0)

\* C3 amended: the same, with the mean of the output being 0 over each
\* group that holds at least one non-null input; the output of a group
\* that holds none is null throughout.
C3_GroupMeanZeroWherePresent ==
    pc = "dm_done" =>
        /\ RowsDemeaned
        /\ \A i \in 1..Len(dm_in) :
              \A c \in DmColumns :
                  IF Holding(dm_in, Peers(i), c) # {}
                  THEN OutputMean(i, c) = Num(0)
                  ELSE \A j \in Peers(i) : IsNull(dm_out[j].ret[c])

\* A demeaning by sector in which a group of two rows with different
\* returns gave a non-zero residual, next to a row with no return.
C3_Witness ==
    /\ pc = "dm_done"
    /\ by_sector
    /\ \E i, j \in 1..Len(dm_in) :
          /\ i # j
          /\ j \in Peers(i)
          /\ dm_out[i].ret[1] = <<1, 2>>
          /\ dm_out[j].ret[1] = <<-1, 2>>
    /\ \E i \in 1..Len(dm_in) : IsNull(dm_in[i].ret[1])

====
